---- MODULE Spec2Model ----
(***************************************************************************)
(* Model of docling/backend/msword_backend.py: MsWordDocumentBackend walks *)
(* the body of a DOCX document element by element and rebuilds the         *)
(* hierarchy (sections, lists, tables, pictures) in a DoclingDocument,     *)
(* using the per-level dictionary `parents`, `level_at_new_list`, `level`  *)
(* and the `history` of the paragraphs seen so far.                        *)
(***************************************************************************)
EXTENDS Integers, Sequences, FiniteSets, TLC

(***************************************************************************)
(* Encodings of the Python values the backend handles.                     *)
(***************************************************************************)
\* self.max_levels
max_levels == 10
\* Python None where a node reference is expected (also: parent=None, the root)
None == 0
\* a key that is not in the dictionary self.parents
Absent == -1
\* Python None where an int is expected (numid, ilevel, plevel, level_at_new_list)
NoInt == -1
\* the attribute self.level before its first assignment (it is not set in __init__)
NoAttr == -2

(***************************************************************************)
(* Bounds of the model.                                                    *)
(***************************************************************************)
\* number of body elements walked in the general specification
MaxStream == 4
\* largest indent level (w:ilvl) of a list paragraph
MaxIndent == 2
\* number of body elements walked in the headings-only specifications
MaxHeadings == 3

\* number of paragraphs of a body that opens a list under a deep heading
MaxDeep == 3
\* number of elements of a body that mixes list items, tables and other elements
MaxMixed == 4
\* number of body elements walked, over both runs, when convert is called twice
MaxTwice == 5
\* largest numbers of rows of a table, of cells of a row and largest w:gridSpan
MaxRows == 2
MaxCells == 2
MaxSpan == 2
\* number of body elements walked in the tables-only specification
MaxTables == 1

\* keys the dictionary self.parents can hold in the model
MaxKey == max_levels + MaxIndent + 1
Keys == -1 .. MaxKey

VARIABLES
  parents,            \* self.parents: key -> Absent | None | node id
  level_at_new_list,  \* self.level_at_new_list
  level,              \* self.level
  history,            \* self.history, one record per appended entry
  doc,                \* the DoclingDocument: node id -> [kind, parent]
  body,               \* the elements walk_linear has taken from body so far
  at_dispatch,        \* parents and level_at_new_list when add_text reaches line 178
  err                 \* "" while running, else the exception that left convert

vars == <<parents, level_at_new_list, level, history, doc, body, at_dispatch, err>>

(***************************************************************************)
(* Input elements.  A style name is kept as its separator and its parts,   *)
(* e.g. "Heading 1" is [sep |-> " ", parts |-> <<"Heading", "1">>].        *)
(***************************************************************************)
StyleName(sep, parts) == [sep |-> sep, parts |-> parts]
Word(w) == StyleName("", <<w>>)
\* paragraph.style is None
NoStyle == StyleName("", <<>>)

NoNumPr == [present |-> FALSE, numId |-> NoInt, ilvl |-> NoInt]
NumPr(n, i) == [present |-> TRUE, numId |-> n, ilvl |-> i]

Paragraph(style, numPr) == [tag |-> "p", style |-> style, numPr |-> numPr]
\* a cell of a table row: the attributes w:gridSpan (NoInt when it has none) and
\* w:vMerge ("" when it has none, else "restart" or "continue")
Cell(span, merge) == [gridSpan |-> span, vMerge |-> merge]
\* a table: its rows, each the sequence of the row's cells
TableOf(rows) == [tag |-> "tbl", style |-> NoStyle, numPr |-> NoNumPr, rows |-> rows]
\* a table of one cell that carries no span attribute
Table == TableOf(<< <<Cell(NoInt, "")>> >>)
\* a table of one column whose two cells are merged vertically
MergedTable == TableOf(<< <<Cell(NoInt, "restart")>>, <<Cell(NoInt, "continue")>> >>)
Drawing == [tag |-> "drawing", style |-> NoStyle, numPr |-> NoNumPr]
SectPr == [tag |-> "sectPr", style |-> NoStyle, numPr |-> NoNumPr]

Numerals == {"0", "1", "2", "3", "4", "5", "6", "7", "8", "9"}
\* int(text) for the numerals of the model
IntOf(t) ==
  CASE t = "0" -> 0 [] t = "1" -> 1 [] t = "2" -> 2 [] t = "3" -> 3
    [] t = "4" -> 4 [] t = "5" -> 5 [] t = "6" -> 6 [] t = "7" -> 7
    [] t = "8" -> 8 [] t = "9" -> 9
\* the numeral of a level, for building style names
NumeralOf(n) == CHOOSE t \in Numerals : IntOf(t) = n

Title == Paragraph(Word("Title"), NoNumPr)
Heading(n) == Paragraph(StyleName(" ", <<"Heading", NumeralOf(n)>>), NoNumPr)
HeadingPlain == Paragraph(Word("Heading"), NoNumPr)
Normal == Paragraph(Word("Normal"), NoNumPr)
Caption == Paragraph(Word("Caption"), NoNumPr)
ListItem(n, i) == Paragraph(StyleName(" ", <<"List", "Paragraph">>), NumPr(n, i))

(***************************************************************************)
(* The backend's state as one record, so that the handlers are operators.  *)
(***************************************************************************)
State(p, l, lv, d, ad, e) ==
  [parents |-> p, level_at_new_list |-> l, level |-> lv, doc |-> d,
   at_dispatch |-> ad, err |-> e]

Raise(s, e) == [s EXCEPT !.err = e]

\* key in self.parents
Has(p, k) == k \in Keys /\ p[k] # Absent

\* doc.add_text / add_heading / add_group / add_table / add_picture
AddNode(s, kind, parent) ==
  [s EXCEPT !.doc = Append(@, [kind |-> kind, parent |-> parent])]
\* the node the last AddNode returned
NewNode(s) == Len(s.doc)

\* ClearFrom with the comparison off by one (key > k): slot k itself survives
ClearFrom_after(p, k) ==
  [j \in Keys |-> IF j > k /\ p[j] # Absent THEN None ELSE p[j]]

\* for key, val in self.parents.items(): if key >= k: self.parents[key] = None
ClearFrom(p, k) ==
  [j \in Keys |-> IF j >= k /\ p[j] # Absent THEN None ELSE p[j]]

\* get_level: the first key >= 0 holding None, else 0
get_level(p) ==
  LET Open == {k \in Keys : k >= 0 /\ p[k] = None}
  IN IF Open = {} THEN 0
     ELSE CHOOSE k \in Open : \A j \in Open : k <= j

\* self.parents[k] = doc.add_<kind>(parent=self.parents[k - 1], ...)
PlaceAt(s, k, kind) ==
  IF ~Has(s.parents, k - 1) THEN Raise(s, "KeyError")
  ELSE LET t == AddNode(s, kind, s.parents[k - 1])
       IN [t EXCEPT !.parents[k] = NewNode(t)]

\* for i in range(lo, hi): self.parents[i] = doc.add_group(parent=self.parents[i - 1])
RECURSIVE GroupLoop(_, _, _, _)
GroupLoop(s, lo, hi, kind) ==
  IF lo >= hi \/ s.err # "" THEN s
  ELSE GroupLoop(PlaceAt(s, lo, kind), lo + 1, hi, kind)

\* doc.add_<kind>(parent=self.parents[k], ...) for a leaf
LeafUnder(s, k, kind) ==
  IF ~Has(s.parents, k) THEN Raise(s, "KeyError")
  ELSE AddNode(s, kind, s.parents[k])

(***************************************************************************)
(* Classification of a paragraph.                                          *)
(***************************************************************************)
\* words of the model's style names that contain the text "Heading"
WordsWithHeading == {"Heading"}
\* "Heading" in label
ContainsHeading(name) == \E i \in 1 .. Len(name.parts) : name.parts[i] \in WordsWithHeading

\* get_label_and_level: [name, level, err]; int() of a non-numeral raises ValueError
get_label_and_level(style) ==
  LET Split(w, t) ==
        IF t \in Numerals THEN [name |-> Word(w), level |-> IntOf(t), err |-> ""]
        ELSE [name |-> Word(w), level |-> NoInt, err |-> "ValueError"]
      \* len(label.split(" "))
      nparts == IF style.sep = " " THEN Len(style.parts) ELSE 1
  IN IF style = NoStyle THEN [name |-> Word("Normal"), level |-> NoInt, err |-> ""]
     ELSE IF style.sep = ":" /\ Len(style.parts) = 2
       THEN Split(style.parts[1], style.parts[2])
     ELSE IF ContainsHeading(style) /\ nparts = 2
       THEN Split(style.parts[1], style.parts[2])
     ELSE [name |-> style, level |-> NoInt, err |-> ""]

\* get_numId_and_ilvl: [numid, ilevel, err]; int(None) raises TypeError
get_numId_and_ilvl(numPr) ==
  IF numPr.present
    THEN IF numPr.numId = NoInt \/ numPr.ilvl = NoInt
           THEN [numid |-> NoInt, ilevel |-> NoInt, err |-> "TypeError"]
           ELSE [numid |-> numPr.numId, ilevel |-> numPr.ilvl, err |-> ""]
    ELSE [numid |-> NoInt, ilevel |-> NoInt, err |-> ""]

\* the names add_text places as plain paragraphs
ParagraphNames ==
  {Word("Paragraph"), Word("Normal"), Word("Subtitle"), Word("Author"),
   StyleName(" ", <<"Default", "Text">>), StyleName(" ", <<"List", "Paragraph">>),
   StyleName(" ", <<"List", "Bullet">>), Word("Quote")}

\* the first entry of every history list
NoEntry == [name |-> NoStyle, level |-> NoInt, numid |-> NoInt, indent |-> NoInt]
\* prev_numid, prev_indent
prev_numid(h) == h[Len(h)].numid
prev_indent(h) == h[Len(h)].indent

(***************************************************************************)
(* Handlers.                                                               *)
(***************************************************************************)
\* add_header whose curr_level < level branch does not prune the deeper slots
add_header_keep(s, curr_level) ==
  LET lvl == get_level(s.parents)
  IN IF curr_level # NoInt
       THEN IF curr_level = lvl THEN PlaceAt(s, lvl, "heading")
            ELSE IF curr_level > lvl
              THEN LET t == GroupLoop(s, lvl, curr_level, "section")
                   IN IF t.err # "" THEN t ELSE PlaceAt(t, curr_level, "heading")
            ELSE PlaceAt(s, curr_level, "heading")
     ELSE IF s.level = NoAttr THEN Raise(s, "AttributeError")
     ELSE PlaceAt(s, s.level, "heading")

\* add_header
add_header(s, curr_level) ==
  LET lvl == get_level(s.parents)
  IN IF curr_level # NoInt
       THEN IF curr_level = lvl THEN PlaceAt(s, lvl, "heading")
            ELSE IF curr_level > lvl
              THEN LET t == GroupLoop(s, lvl, curr_level, "section")
                   IN IF t.err # "" THEN t ELSE PlaceAt(t, curr_level, "heading")
            ELSE PlaceAt([s EXCEPT !.parents = ClearFrom(@, curr_level)],
                         curr_level, "heading")
     ELSE IF s.level = NoAttr THEN Raise(s, "AttributeError")
     ELSE PlaceAt(s, s.level, "heading")

\* add_listitem
add_listitem(s, h, numid, ilevel) ==
  LET lvl == get_level(s.parents)
      base == s.level_at_new_list
  IN IF prev_numid(h) = NoInt
       THEN LET t == PlaceAt([s EXCEPT !.level_at_new_list = lvl], lvl, "list")
            IN IF t.err # "" THEN t ELSE LeafUnder(t, lvl, "list_item")
     ELSE IF prev_numid(h) = numid /\ prev_indent(h) < ilevel
       THEN IF base = NoInt THEN Raise(s, "TypeError")
            ELSE LET t == GroupLoop(s, base + prev_indent(h) + 1, base + ilevel + 1, "list")
                 IN IF t.err # "" THEN t ELSE LeafUnder(t, base + ilevel, "list_item")
     ELSE IF prev_numid(h) = numid /\ ilevel < prev_indent(h)
       THEN IF base = NoInt THEN Raise(s, "TypeError")
            ELSE LeafUnder([s EXCEPT !.parents = ClearFrom(@, base + ilevel + 1)],
                           base + ilevel, "list_item")
     ELSE IF prev_numid(h) = numid \/ prev_indent(h) = ilevel
       THEN LeafUnder(s, lvl - 1, "list_item")
     ELSE s

\* CloseList that forgets the list but leaves its slots set
CloseList_keep(s) ==
  IF s.level_at_new_list = NoInt THEN Raise(s, "TypeError")
  ELSE [s EXCEPT !.level = s.level_at_new_list - 1,
                 !.level_at_new_list = NoInt]

\* CloseList that clears the list's slots but leaves its base level recorded
CloseList_stale(s) ==
  IF s.level_at_new_list = NoInt THEN Raise(s, "TypeError")
  ELSE [s EXCEPT !.parents = ClearFrom(@, s.level_at_new_list),
                 !.level = s.level_at_new_list - 1]

\* add_text, lines 169-176: the list is closed when a paragraph without numbering follows
CloseList(s) ==
  IF s.level_at_new_list = NoInt THEN Raise(s, "TypeError")
  ELSE [s EXCEPT !.parents = ClearFrom(@, s.level_at_new_list),
                 !.level = s.level_at_new_list - 1,
                 !.level_at_new_list = NoInt]

\* add_text, lines 178-206: Title, heading, plain paragraph or assert False
Dispatch(s, pname, plevel) ==
  IF pname = Word("Title")
    THEN LET t == AddNode([s EXCEPT !.parents = ClearFrom(@, -1)], "title", None)
         IN [t EXCEPT !.parents[0] = NewNode(t)]
  ELSE IF ContainsHeading(pname) THEN add_header(s, plevel)
  ELSE IF pname \in ParagraphNames
    THEN LeafUnder(s, get_level(s.parents) - 1, "paragraph")
  ELSE Raise(s, "AssertionError")

\* the tracker as add_text sees it on reaching line 178
Snapshot(s) ==
  [parents |-> s.parents, level_at_new_list |-> s.level_at_new_list, nodes |-> Len(s.doc)]

\* add_text: the state after it and whether update_history ran
add_text(s, h, e) ==
  LET pl == get_label_and_level(e.style)
      nm == get_numId_and_ilvl(e.numPr)
      entry == [name |-> pl.name, level |-> pl.level,
                numid |-> nm.numid, indent |-> nm.ilevel]
      Done(t) == [state |-> t,
                  history |-> IF t.err = "" THEN Append(h, entry) ELSE h]
  IN IF pl.err # "" THEN Done(Raise(s, pl.err))
     ELSE IF nm.err # "" THEN Done(Raise(s, nm.err))
     ELSE IF nm.numid # NoInt /\ nm.ilevel # NoInt
       THEN Done(add_listitem(s, h, nm.numid, nm.ilevel))
     ELSE LET c == IF nm.numid = NoInt /\ prev_numid(h) # NoInt THEN CloseList(s) ELSE s
              d == [c EXCEPT !.at_dispatch = Snapshot(c)]
          IN IF c.err # "" THEN Done(c) ELSE Done(Dispatch(d, pl.name, pl.level))

\* get_colspan
get_colspan(cell) == IF cell.gridSpan # NoInt THEN cell.gridSpan ELSE 1
\* get_rowspan returns the text of w:vMerge, or the int 1 when there is none
HasRowspanText(cell) == cell.vMerge # ""

\* sum of the column spans of a row's cells
RECURSIVE SpanSum(_)
SpanSum(row) == IF row = <<>> THEN 0 ELSE get_colspan(Head(row)) + SpanSum(Tail(row))
\* num_cols: the largest sum of column spans of a row
NumCols(rows) ==
  LET S == {SpanSum(rows[r]) : r \in 1 .. Len(rows)} \cup {0}
  IN CHOOSE m \in S : \A x \in S : x <= m

\* while table_grid[row_idx][col_idx] is not None: col_idx += 1
\* (the first free column from col on; num_cols when there is none: IndexError)
RECURSIVE NextFree(_, _, _, _)
NextFree(grid, r, col, ncols) ==
  IF col >= ncols \/ <<r, col>> \notin grid THEN col
  ELSE NextFree(grid, r, col + 1, ncols)

\* the body of the loop over a row's cells, for cell c of row r (rows and columns
\* counted from 0); t is [grid, cells, col_idx, err]
CellStep(t, r, cell, ncols) ==
  LET col == NextFree(t.grid, r, t.col_idx, ncols)
      span == get_colspan(cell)
  IN IF col >= ncols THEN [t EXCEPT !.err = "IndexError"]
     \* range(row_span if row_span == "restart" else 1)
     ELSE IF cell.vMerge = "restart" THEN [t EXCEPT !.err = "TypeError"]
     ELSE IF col + span > ncols THEN [t EXCEPT !.err = "IndexError"]
     \* end_row_offset_idx=row_idx + row_span
     ELSE IF HasRowspanText(cell) THEN [t EXCEPT !.err = "TypeError"]
     ELSE [grid |-> t.grid \cup {<<r, c>> : c \in col .. col + span - 1},
           cells |-> Append(t.cells,
                       [start_row |-> r, end_row |-> r + 1,
                        start_col |-> col, end_col |-> col + span]),
           col_idx |-> col,
           err |-> ""]

\* for c, cell in enumerate(row.cells)
RECURSIVE RowLoop(_, _, _, _)
RowLoop(t, r, row, ncols) ==
  IF row = <<>> \/ t.err # "" THEN t
  ELSE RowLoop(CellStep(t, r, Head(row), ncols), r, Tail(row), ncols)

\* for row_idx, row in enumerate(table.rows), from row r on
RECURSIVE TableLoop(_, _, _, _)
TableLoop(t, r, rows, ncols) ==
  IF r >= Len(rows) \/ t.err # "" THEN t
  ELSE TableLoop(RowLoop([t EXCEPT !.col_idx = 0], r, rows[r + 1], ncols), r + 1, rows, ncols)

\* the BaseTableData add_table builds: [num_rows, num_cols, table_cells, err]
TableData(rows) ==
  LET t == TableLoop([grid |-> {}, cells |-> <<>>, col_idx |-> 0, err |-> ""],
                     0, rows, NumCols(rows))
  IN [num_rows |-> Len(rows), num_cols |-> NumCols(rows),
      table_cells |-> t.cells, err |-> t.err]

\* add_table: the grid is built, then the table is placed under the node above the
\* first free level
add_table(s, e) ==
  LET data == TableData(e.rows)
      k == get_level(s.parents) - 1
  IN IF data.err # "" THEN Raise(s, data.err)
     ELSE IF ~Has(s.parents, k) THEN Raise(s, "KeyError")
     ELSE [s EXCEPT !.doc = Append(@, [kind |-> "table", parent |-> s.parents[k],
                                       data |-> data])]

\* add_figure
add_figure(s) ==
  IF s.level = NoAttr THEN Raise(s, "AttributeError")
  ELSE LeafUnder(s, s.level, "picture")

(***************************************************************************)
(* The conversion as a state machine: one step per element of the body.    *)
(***************************************************************************)
\* __init__
Init ==
  /\ parents = [k \in Keys |-> IF k < max_levels THEN None ELSE Absent]
  /\ level_at_new_list = NoInt
  /\ level = NoAttr
  /\ history = <<NoEntry>>
  /\ doc = <<>>
  /\ body = <<>>
  /\ at_dispatch = [parents |-> [k \in Keys |-> IF k < max_levels THEN None ELSE Absent],
                    level_at_new_list |-> NoInt, nodes |-> 0]
  /\ err = ""

Current == State(parents, level_at_new_list, level, doc, at_dispatch, err)

\* the backend's fields after a handler returned or raised
Becomes(s) ==
  /\ parents' = s.parents
  /\ level_at_new_list' = s.level_at_new_list
  /\ level' = s.level
  /\ doc' = s.doc
  /\ at_dispatch' = s.at_dispatch
  /\ err' = s.err

\* walk_linear takes the next element while no exception has left the loop
Take(e, n) ==
  /\ err = ""
  /\ Len(body) < n
  /\ body' = Append(body, e)

\* walk_linear, tag "p": add_text
TextStep(E, n) ==
  \E e \in E :
    /\ Take(e, n)
    /\ LET r == add_text(Current, history, e)
       IN Becomes(r.state) /\ history' = r.history

\* walk_linear, tag "tbl": add_table
TableStepOf(T, n) ==
  \E e \in T :
    /\ Take(e, n)
    /\ Becomes(add_table(Current, e))
    /\ UNCHANGED history
TableStep(n) == TableStepOf({Table}, n)

\* walk_linear, tag "drawing" or "blip": add_figure
FigureStep(n) ==
  /\ Take(Drawing, n)
  /\ Becomes(add_figure(Current))
  /\ UNCHANGED history

\* walk_linear, any other tag: warn and go on
IgnoreStep(n) ==
  /\ Take(SectPr, n)
  /\ UNCHANGED <<parents, level_at_new_list, level, history, doc, at_dispatch, err>>

\* a further call of convert on the same backend: a new DoclingDocument is created
\* (line 383) and the body is walked again; the backend's fields are left as they are
\* (line 390, self.initialise(), is commented out).  The new document's nodes follow
\* its "document" node in doc, and body records the call.
ConvertCall == [tag |-> "convert", style |-> NoStyle, numPr |-> NoNumPr]
ConvertAgain(n) ==
  /\ Take(ConvertCall, n)
  /\ doc' = Append(doc, [kind |-> "document", parent |-> None])
  /\ UNCHANGED <<parents, level_at_new_list, level, history, at_dispatch, err>>

(***************************************************************************)
(* Inputs of the specifications.                                           *)
(***************************************************************************)
\* numbering ids of the list paragraphs
NumIds == {5, 6}
Indents == 0 .. MaxIndent
ListItems == {ListItem(n, i) : n \in NumIds, i \in Indents}
\* w:numPr with only one of w:numId and w:ilvl
Malformed ==
  {Paragraph(Word("Normal"), NumPr(5, NoInt)), Paragraph(Word("Normal"), NumPr(NoInt, 0))}
Headings == {Heading(n) : n \in 0 .. max_levels - 1}
Paragraphs ==
  {Title, Heading(1), Heading(2), Heading(max_levels - 1), HeadingPlain, Normal, Caption}
    \cup ListItems \cup Malformed

\* any document body
Next ==
  \/ TextStep(Paragraphs, MaxStream)
  \/ TableStep(MaxStream)
  \/ FigureStep(MaxStream)
  \/ IgnoreStep(MaxStream)
Spec == Init /\ [][Next]_vars

\* a body of numbered headings only
NextHeadings == TextStep(Headings, MaxHeadings)
SpecHeadings == Init /\ [][NextHeadings]_vars

\* the scenario of the specification's testable properties
Scenario == <<Title, Heading(1), ListItem(5, 0), ListItem(5, 1), Normal>>
ScenarioElements == {Scenario[i] : i \in 1 .. Len(Scenario)}
\* bodies made of the scenario's elements, in any order
NextScenario == TextStep(ScenarioElements, Len(Scenario))
SpecScenario == Init /\ [][NextScenario]_vars

\* lists below a heading of the deepest level that leaves one slot free
DeepElements == {Heading(max_levels - 2), Normal} \cup ListItems
NextDeep == TextStep(DeepElements, MaxDeep)
SpecDeep == Init /\ [][NextDeep]_vars

\* a body of paragraphs, converted once or several times by the same backend
TwiceElements == {Title, Heading(1), Normal, ListItem(5, 0), ListItem(5, 1)}
NextTwice ==
  \/ TextStep(TwiceElements, MaxTwice)
  \/ ConvertAgain(MaxTwice)
SpecTwice == Init /\ [][NextTwice]_vars

\* tables: every cell with or without w:gridSpan and w:vMerge
Cells == {Cell(g, m) : g \in {NoInt} \cup 2 .. MaxSpan, m \in {"", "restart", "continue"}}
Rows == UNION {[1 .. n -> Cells] : n \in 1 .. MaxCells}
Tables == {TableOf(rows) : rows \in UNION {[1 .. n -> Rows] : n \in 0 .. MaxRows}}
\* a body of tables only
NextTables == TableStepOf(Tables, MaxTables)
SpecTables == Init /\ [][NextTables]_vars

\* list items and plain paragraphs with tables and unknown elements between them
MixedParagraphs == {Normal, ListItem(5, 0), ListItem(5, 1)}
MixedTables == {Table, MergedTable}
NextMixed ==
  \/ TextStep(MixedParagraphs, MaxMixed)
  \/ TableStepOf(MixedTables, MaxMixed)
  \/ IgnoreStep(MaxMixed)
SpecMixed == Init /\ [][NextMixed]_vars

(***************************************************************************)
(* Reading the document tree and the tracker.                              *)
(***************************************************************************)
Last(q) == q[Len(q)]

\* number of ancestors of node n
RECURSIVE Depth(_, _)
Depth(d, n) == IF d[n].parent = None THEN 0 ELSE 1 + Depth(d, d[n].parent)

\* number of list groups from node n upwards until a node that is no list group
RECURSIVE ListChain(_, _)
ListChain(d, n) ==
  IF d[n].parent = None \/ d[d[n].parent].kind # "list" THEN 0
  ELSE 1 + ListChain(d, d[n].parent)

\* slot k of tracker p holds a node
IsSet(p, k) == p[k] # None /\ p[k] # Absent
\* the node in the deepest set slot, None (the root) when no slot is set
Innermost(p) ==
  LET S == {k \in Keys : k >= 0 /\ IsSet(p, k)}
  IN IF S = {} THEN None ELSE p[CHOOSE k \in S : \A j \in S : j <= k]

\* the step just taken consumed element e
Took(e) == body' = Append(body, e)
\* the nodes the step just taken created
Created == (Len(doc) + 1) .. Len(doc')

\* classification of an element by add_text's dispatch
NameOf(e) == get_label_and_level(e.style).name
IsListItem(e) == e.tag = "p" /\ e.numPr.present /\ e.numPr.numId # NoInt /\ e.numPr.ilvl # NoInt
IsMalformed(e) == e.tag = "p" /\ e.numPr.present /\ (e.numPr.numId = NoInt) # (e.numPr.ilvl = NoInt)
IsRecognised(e) ==
  NameOf(e) = Word("Title") \/ ContainsHeading(NameOf(e)) \/ NameOf(e) \in ParagraphNames
IsPlain(e) ==
  /\ e.tag = "p" /\ ~e.numPr.present
  /\ NameOf(e) # Word("Title") /\ ~ContainsHeading(NameOf(e))
  /\ NameOf(e) \in ParagraphNames

(***************************************************************************)
(* C1                                                                      *)
(***************************************************************************)
\* C1: the scenario [Title, Heading 1, ListItem(5,0), ListItem(5,1), Normal] from the
\* initial state yields the title at the root, the heading under the title, a list
\* group under the heading holding item x, a nested list group under that group
\* holding item y, and paragraph z directly under the heading.
C1_Scenario ==
  body = Scenario =>
    /\ err = ""
    /\ doc = << [kind |-> "title", parent |-> None],
                [kind |-> "heading", parent |-> 1],
                [kind |-> "list", parent |-> 2],
                [kind |-> "list_item", parent |-> 3],
                [kind |-> "list", parent |-> 3],
                [kind |-> "list_item", parent |-> 5],
                [kind |-> "paragraph", parent |-> 2] >>
    /\ level_at_new_list = NoInt

C1_Witness == body = Scenario /\ err = "" /\ Len(doc) = 7 /\ doc[7].kind = "paragraph"

(***************************************************************************)
(* C2                                                                      *)
(***************************************************************************)
\* the levels below c that are unset down to c: the levels skipped on the way down
\* from the shallower open ancestor
Skipped(p, c) == {j \in 0 .. c - 1 : \A k \in j .. c - 1 : ~IsSet(p, k)}

\* C2: every numbered heading is inserted at a depth equal to its level, and section
\* groups are created only for the skipped levels, exactly one for each.
C2_HeadingDepth ==
  [][ \A e \in Headings :
        Took(e) =>
          LET c == get_label_and_level(e.style).level
              G == {n \in Created : doc'[n].kind = "section"}
          IN /\ err' = ""
             /\ Len(doc') > Len(doc)
             /\ doc'[Len(doc')].kind = "heading"
             /\ Depth(doc', Len(doc')) = c
             /\ \A n \in G : Depth(doc', n) \in Skipped(parents, c)
             /\ \A j \in Skipped(parents, c) :
                  Cardinality({n \in G : Depth(doc', n) = j}) = 1 ]_vars

(***************************************************************************)
(* C3                                                                      *)
(***************************************************************************)
\* C3: every list item placed at indent i has exactly i + 1 list groups between it
\* and its nearest ancestor that is no list group.
C3_ListDepth ==
  [][ \A e \in ListItems :
        (Took(e) /\ err' = "" /\ Created # {} /\ doc'[Len(doc')].kind = "list_item")
          => ListChain(doc', Len(doc')) = e.numPr.ilvl + 1 ]_vars

(***************************************************************************)
(* C4                                                                      *)
(***************************************************************************)
\* C4: when a title, heading or plain paragraph follows list items, the list is still
\* open until then (its base level is recorded and the slot of its outermost group is
\* set), and every slot at or below the base level is unset and level_at_new_list is
\* None once add_text goes on to create the paragraph's node, before any node of the
\* paragraph exists.
C4_ClosingResets ==
  [][ \A e \in Paragraphs :
        (Took(e) /\ ~e.numPr.present /\ IsRecognised(e) /\ prev_numid(history) # NoInt)
          => /\ level_at_new_list # NoInt
             /\ IsSet(parents, level_at_new_list)
             /\ at_dispatch'.nodes = Len(doc)
             /\ at_dispatch'.level_at_new_list = NoInt
             /\ \A k \in Keys :
                  k >= level_at_new_list => ~IsSet(at_dispatch'.parents, k) ]_vars

C4_Witness ==
  /\ err = "" /\ Len(history) >= 4
  /\ history[Len(history)].numid = NoInt
  /\ history[Len(history) - 1].numid # NoInt
  /\ history[Len(history) - 1].indent > 0
  /\ doc[Len(doc)].kind = "heading"
  /\ at_dispatch.nodes < Len(doc)
  /\ \E k \in Keys : k >= 0 /\ IsSet(at_dispatch.parents, k)

(***************************************************************************)
(* C5                                                                      *)
(***************************************************************************)
\* C5: a list item whose numbering id differs from that of the list item just before
\* it, at the same indent, gets a new list group and is placed under that group.
C5_NewNumIdNewList ==
  [][ \A e \in ListItems :
        (Took(e) /\ prev_numid(history) # NoInt /\ prev_numid(history) # e.numPr.numId
           /\ prev_indent(history) = e.numPr.ilvl)
          => /\ err' = ""
             /\ \E g \in Created :
                  /\ doc'[g].kind = "list"
                  /\ doc'[Len(doc')] = [kind |-> "list_item", parent |-> g] ]_vars

(***************************************************************************)
(* C6                                                                      *)
(***************************************************************************)
\* C6: a paragraph whose style name fits none of the recognised categories does not
\* abort the conversion.
C6_UnknownStyleRecoverable ==
  \A i \in 1 .. Len(body) :
    (body[i].tag = "p" /\ ~IsRecognised(body[i])) => err = ""

(***************************************************************************)
(* C7                                                                      *)
(***************************************************************************)
\* C7: a paragraph whose numbering carries only one of numbering id and indent level
\* raises no error and is recorded as a paragraph without numbering.
C7_MalformedNumberingIsParagraph ==
  (Len(body) > 0 /\ IsMalformed(Last(body))) =>
    /\ err = ""
    /\ Last(history).numid = NoInt /\ Last(history).indent = NoInt
    /\ Last(history).name = NameOf(Last(body))

(***************************************************************************)
(* C8                                                                      *)
(***************************************************************************)
\* C8: the set slots of the tracker form a contiguous prefix.
C8_NoOrphanedSlot ==
  \A k \in Keys : (k >= 0 /\ IsSet(parents, k)) => \A j \in 0 .. k - 1 : IsSet(parents, j)

(***************************************************************************)
(* C9                                                                      *)
(***************************************************************************)
\* C9: a recognised plain paragraph is placed under the node in the deepest set slot of
\* the tracker, or at the root when no slot is set.
C9_ParagraphUnderInnermost ==
  (Len(body) > 0 /\ IsPlain(Last(body)) /\ err = "") =>
    doc[Len(doc)] = [kind |-> "paragraph", parent |-> Innermost(parents)]

(***************************************************************************)
(* C10                                                                     *)
(***************************************************************************)
\* C10: a figure is inserted without error as a leaf under the innermost open node of
\* the tracker, whatever came before it, and the tracker is left unchanged.
C10_FigureLeaf ==
  [][ Took(Drawing) =>
        /\ err' = ""
        /\ parents' = parents
        /\ doc' = Append(doc, [kind |-> "picture", parent |-> Innermost(parents)]) ]_vars

(***************************************************************************)
(* C11                                                                     *)
(***************************************************************************)
\* the grid slots of the rectangle [start_row, end_row) x [start_col, end_col)
SlotsOf(c) ==
  {<<r, k>> : r \in c.start_row .. c.end_row - 1, k \in c.start_col .. c.end_col - 1}
\* every slot of the num_rows x num_cols grid lies in exactly one cell of the data
CoveredOnce(data) ==
  \A r \in 0 .. data.num_rows - 1, k \in 0 .. data.num_cols - 1 :
    Cardinality({i \in 1 .. Len(data.table_cells) : <<r, k>> \in SlotsOf(data.table_cells[i])}) = 1

\* C11: the cells add_table emits for a table cover every slot of its rows x cols grid,
\* and no slot is covered by two cells.
C11_GridCoverage ==
  \A n \in 1 .. Len(doc) : doc[n].kind = "table" => CoveredOnce(doc[n].data)

(***************************************************************************)
(* C14                                                                     *)
(***************************************************************************)
\* C14: whatever the column spans and vertical-merge attributes of its cells, a table
\* is emitted without error, and every emitted cell lies within the grid.
C14_SpansNeverFail ==
  (Len(body) > 0 /\ Last(body).tag = "tbl") =>
    /\ err = ""
    /\ Len(doc) > 0 /\ doc[Len(doc)].kind = "table"
    /\ LET data == doc[Len(doc)].data
       IN \A i \in 1 .. Len(data.table_cells) :
            /\ data.table_cells[i].end_row <= data.num_rows
            /\ data.table_cells[i].end_col <= data.num_cols

(***************************************************************************)
(* C12                                                                     *)
(***************************************************************************)
\* the positions of the further convert calls in body, of the document nodes in doc
Calls == {i \in 1 .. Len(body) : body[i] = ConvertCall}
DocumentNodes == {n \in 1 .. Len(doc) : doc[n].kind = "document"}
\* the same body was walked twice: B, the second call of convert, B again
WalkedTwice ==
  /\ Cardinality(Calls) = 1
  /\ LET m == CHOOSE i \in Calls : TRUE
     IN /\ Len(body) = 2 * m - 1
        /\ \A i \in 1 .. m - 1 : body[m + i] = body[i]

\* C12: when the same body is converted a second time by the same backend, the second
\* tree has the same nodes, of the same kinds, under the same parents and in the same
\* order as the first.
C12_Deterministic ==
  WalkedTwice =>
    /\ err = ""
    /\ LET d == CHOOSE n \in DocumentNodes : TRUE
       IN /\ Len(doc) = 2 * d - 1
          /\ \A i \in 1 .. d - 1 :
               /\ doc[d + i].kind = doc[i].kind
               /\ doc[d + i].parent = IF doc[i].parent = None THEN None ELSE doc[i].parent + d

(***************************************************************************)
(* C13                                                                     *)
(***************************************************************************)
\* C13: the tracker is a fixed-size structure: the only slots that exist are the root
\* sentinel -1 and the slots 0 .. max_levels - 1; no slot of index >= max_levels is
\* ever created.
C13_FixedSize == \A k \in Keys : k >= max_levels => ~Has(parents, k)

(***************************************************************************)
(* C15                                                                     *)
(***************************************************************************)
\* the numeric level of a heading paragraph, NoInt when its style carries none
LevelOf(e) == get_label_and_level(e.style).level
IsHeading(e) == e.tag = "p" /\ ~e.numPr.present /\ ContainsHeading(NameOf(e))

\* C15: when add_header processes a heading whose numeric level curr is smaller than
\* the open level it finds, it returns normally and afterwards slot curr holds the new
\* heading node, whose parent is the node that was in slot curr - 1; every slot deeper
\* than curr is unset and every slot shallower than curr is unchanged.
C15_ShallowerHeading ==
  [][ \A e \in Paragraphs :
        LET c == LevelOf(e)
            before == at_dispatch'.parents
        IN (Took(e) /\ IsHeading(e) /\ c # NoInt /\ c < get_level(before))
             => /\ err' = ""
                /\ Created = {Len(doc')}
                /\ parents'[c] = Len(doc')
                /\ Last(doc') = [kind |-> "heading", parent |-> before[c - 1]]
                /\ \A k \in Keys : k > c => ~IsSet(parents', k)
                /\ \A k \in Keys : k < c => parents'[k] = before[k] ]_vars

C15_Witness ==
  /\ err = "" /\ Len(body) >= 2
  /\ IsHeading(Last(body)) /\ LevelOf(Last(body)) = 1
  /\ at_dispatch.nodes = Len(doc) - 1
  /\ IsSet(at_dispatch.parents, 1) /\ IsSet(at_dispatch.parents, 2)
  /\ parents[1] = Len(doc) /\ Last(doc).kind = "heading"
  /\ ~IsSet(parents, 2)

(***************************************************************************)
(* C16                                                                     *)
(***************************************************************************)
\* C16: a heading paragraph whose style name carries no numeric level is attached
\* without error, in any state including the initial one, as one heading node under the
\* node at the open level add_header finds, and it reassigns no tracker slot.
C16_PlainHeading ==
  [][ \A e \in Paragraphs :
        (Took(e) /\ IsHeading(e) /\ LevelOf(e) = NoInt)
          => /\ err' = ""
             /\ Created = {Len(doc')}
             /\ Last(doc') = [kind |-> "heading", parent |-> Innermost(at_dispatch'.parents)]
             /\ parents' = at_dispatch'.parents ]_vars

(***************************************************************************)
(* C17                                                                     *)
(***************************************************************************)
\* C17: within one list (same numbering id), an item that deepens the list is placed
\* under a list group created for it by that very step, never under a group of an
\* earlier deepening; an item that shallows the list to indent i is placed under the
\* list group in slot level_at_new_list + i, with every deeper slot unset.
C17_GroupsRecreated ==
  [][ \A e \in ListItems :
        LET i == e.numPr.ilvl
            same == Took(e) /\ prev_numid(history) = e.numPr.numId
        IN /\ (same /\ prev_indent(history) < i)
                => /\ err' = ""
                   /\ Last(doc').kind = "list_item"
                   /\ Last(doc').parent \in Created
                   /\ doc'[Last(doc').parent].kind = "list"
           /\ (same /\ i < prev_indent(history))
                => /\ err' = ""
                   /\ Created = {Len(doc')}
                   /\ IsSet(parents', level_at_new_list + i)
                   /\ doc'[parents'[level_at_new_list + i]].kind = "list"
                   /\ Last(doc') = [kind |-> "list_item",
                                    parent |-> parents'[level_at_new_list + i]]
                   /\ \A k \in Keys : k > level_at_new_list + i => ~IsSet(parents', k) ]_vars

(***************************************************************************)
(* C18                                                                     *)
(***************************************************************************)
\* C18: every list item that add_listitem processes, whatever the previous and the
\* current numbering id and indent, creates exactly one list-item node.
C18_NoItemDropped ==
  [][ \A e \in ListItems :
        (Took(e) /\ err' = "")
          => Cardinality({n \in Created : doc'[n].kind = "list_item"}) = 1 ]_vars

(***************************************************************************)
(* C19                                                                     *)
(***************************************************************************)
\* the step just taken opens a list, closes one, or reads the base level of the open one
OpensList(e) == IsListItem(e) /\ prev_numid(history) = NoInt
ClosesList(e) ==
  e.tag = "p" /\ ~IsMalformed(e) /\ ~IsListItem(e) /\ prev_numid(history) # NoInt
ReadsBase(e) ==
  \/ ClosesList(e)
  \/ IsListItem(e) /\ prev_numid(history) = e.numPr.numId
                   /\ prev_indent(history) # e.numPr.ilvl

\* C19: between the elements of a conversion that has not aborted, level_at_new_list
\* is set exactly when the paragraph processed last was a list item; only a step that
\* opens a list or closes one changes it, and it is set whenever the deepen, shallow or
\* close branch reads it.
C19_BaseLevelTracksList ==
  [][ Len(body') = Len(body) + 1 =>
        LET e == Last(body')
        IN /\ err' = "" => ((level_at_new_list' # NoInt) <=> (prev_numid(history') # NoInt))
           /\ level_at_new_list' # level_at_new_list => (OpensList(e) \/ ClosesList(e))
           /\ ReadsBase(e) => level_at_new_list # NoInt ]_vars

C19_Witness ==
  /\ err = "" /\ Len(history) >= 4
  /\ level_at_new_list # NoInt
  /\ history[Len(history)].numid # NoInt
  /\ history[Len(history) - 1].numid = NoInt
  /\ history[Len(history) - 2].numid # NoInt

(***************************************************************************)
(* C20                                                                     *)
(***************************************************************************)
\* C20: a step that processes a table or an element of unknown kind leaves the tracker
\* slots, level_at_new_list and the history as they were and returns normally, so that
\* the conversion goes on with the next element; the unknown element creates no node,
\* the table exactly one.
C20_TableLeavesTracker ==
  [][ Len(body') = Len(body) + 1 =>
        LET e == Last(body')
        IN /\ e.tag \in {"tbl", "sectPr"}
                => /\ parents' = parents
                   /\ level_at_new_list' = level_at_new_list
                   /\ history' = history
                   /\ err' = ""
           /\ e.tag = "sectPr" => doc' = doc
           /\ e.tag = "tbl" => (Created = {Len(doc')} /\ Last(doc').kind = "table") ]_vars

====
